---------------------------- MODULE Spec2Model ----------------------------
(***************************************************************************)
(* A model of image-differ-flask: the Differ class of differ.py (scorer,   *)
(* mask builder, overlay compositor, orchestrator with its files and its   *)
(* uploads) and the Flask module app.py (name bindings and the /v1/diff    *)
(* route).                                                                 *)
(*                                                                         *)
(* Images are mode-RGB rasters: [w, h, px] with px the row-major sequence  *)
(* of <<r, g, b>> pixels.  The Pillow operations the code calls            *)
(* (ImageChops.difference / subtract, histogram, Image.eval, convert('1'), *)
(* Image.composite, convert('RGBA'), Image.alpha_composite) are modelled   *)
(* by what they compute on such rasters.                                   *)
(***************************************************************************)
EXTENDS Integers, Sequences, FiniteSets, TLC

\* ------------------------------------------------------------------ bounds

\* Largest number of pixels (w * h) of a modelled image.
MaxPixels == 2

\* Largest number of requests the Flask application is sent.
MaxRequests == 3

\* ------------------------------------------------------------- image values

Black == <<0, 0, 0>>
White == <<255, 255, 255>>
Green == <<0, 255, 0>>
Blue  == <<0, 0, 255>>

\* The pixel values of the images the components are applied to, and those
\* of the images the URLs of a Differ.diff call serve.
Palette == {Black, White, Green, Blue}
FetchedPalette == {Black, White, Blue}

SeqsOf(S, n) == [1..n -> S]

Shapes == {s \in (1..MaxPixels) \X (1..MaxPixels) : s[1] * s[2] <= MaxPixels}

\* Every RGB image of at most MaxPixels pixels over the pixel values P.
ImagesOver(P) ==
    UNION {{[w |-> s[1], h |-> s[2], px |-> p] : p \in SeqsOf(P, s[1] * s[2])}
           : s \in Shapes}

Images == ImagesOver(Palette)
FetchedImages == ImagesOver(FetchedPalette)

\* The pixel of img at column x, row y (both from 0).
At(img, x, y) == img.px[y * img.w + x + 1]

Min(a, b) == IF a < b THEN a ELSE b
Abs(a) == IF a < 0 THEN 0 - a ELSE a
\* C integer division: truncation toward zero.
TruncDiv(a, b) == IF a >= 0 THEN a \div b ELSE 0 - ((0 - a) \div b)
Clip8(v) == IF v < 0 THEN 0 ELSE IF v > 255 THEN 255 ELSE v

\* The channel arithmetic of the two ImageChops operations used.
ChanOp(op, a, b) == IF op = "difference" THEN Abs(a - b) ELSE Clip8(a - b)

\* A two-image channel operation of ImageChops: the result has the smaller
\* width and the smaller height of the two operands.
Chop(im1, im2, op) ==
    LET w == Min(im1.w, im2.w)
        h == Min(im1.h, im2.h)
    IN [w |-> w, h |-> h,
        px |-> [k \in 1..(w * h) |->
                  LET x == (k - 1) % w
                      y == (k - 1) \div w
                      p == At(im1, x, y)
                      q == At(im2, x, y)
                  IN <<ChanOp(op, p[1], q[1]), ChanOp(op, p[2], q[2]),
                       ChanOp(op, p[3], q[3])>>]]

\* ImageChops.difference(im1, im2)
Difference(im1, im2) == Chop(im1, im2, "difference")

\* ImageChops.subtract(im1, im2): scale 1.0, offset 0, clipped to 0..255
Subtract(im1, im2) == Chop(im1, im2, "subtract")

\* Image.histogram() of an RGB image: the bands' 256-entry histograms one
\* after the other; entry j counts the pixels whose band j \div 256 has the
\* value j % 256.
HistAt(img, j) ==
    Cardinality({k \in 1..Len(img.px) : img.px[k][(j \div 256) + 1] = j % 256})

HistLen(img) == 3 * 256

\* The sum of f[i] for i in lo..hi (by halves, to keep the recursion shallow).
RECURSIVE SumTo(_, _, _)
SumTo(f, lo, hi) ==
    IF lo > hi THEN 0
    ELSE IF lo = hi THEN f[lo]
    ELSE LET mid == (lo + hi) \div 2
         IN SumTo(f, lo, mid) + SumTo(f, mid + 1, hi)


\* ----------------------------------------------------- Differ.rmsdiff_1997

\* map(lambda h, i: h*(i**2), h, range(256)): map stops with its shorter
\* argument, so entry i of the histogram is paired with i for i in 0..255.
WeightedAt(h, i) == HistAt(h, i) * (i * i)

\* The value under the square root is ScoreNum / ScoreDen: the reduce() sum
\* over the float product of im1's width and height.
ScoreNum(im1, im2) ==
    LET d == Difference(im1, im2)
        n == Min(HistLen(d), 256)
        term == [i \in 0..(n - 1) |-> WeightedAt(d, i)]
    IN SumTo(term, 0, n - 1)

ScoreDen(im1) == im1.w * im1.h

rmsdiff_1997(im1, im2) == [num |-> ScoreNum(im1, im2), den |-> ScoreDen(im1)]

\* ------------------------------------------------------------- Differ.mask

\* The threshold of nonzero(): a channel below it maps to 0, else to 255.
ChangeThreshold == 10

nonzero(a) == IF a < ChangeThreshold THEN 0 ELSE 255

\* Image.eval(img, f): the table of f over 0..255, applied to every channel
\* of every pixel.
Eval(img, lut) ==
    [img EXCEPT !.px = [k \in 1..Len(img.px) |->
        <<lut[img.px[k][1]], lut[img.px[k][2]], lut[img.px[k][3]]>>]]

NonzeroTable == [a \in 0..255 |-> nonzero(a)]

\* lambda x: 0
ZeroTable == [a \in 0..255 |-> 0]

\* The ITU-R 601-2 luma of an RGB pixel, as convert() computes it.
Luma(p) == (p[1] * 299 + p[2] * 587 + p[3] * 114) \div 1000

\* convert('1') of an RGB image: Floyd-Steinberg error diffusion over the
\* luma, row by row.  k is the row-major index (from 0) of the next pixel,
\* l/l0/l1 the running errors of the row, errors the per-column errors
\* carried to the next row, out the bits (0 or 255) written so far.
RECURSIVE DitherFrom(_, _, _, _, _, _, _)
DitherFrom(img, k, l, l0, l1, errors, out) ==
    IF k >= img.w * img.h THEN out
    ELSE
      LET x   == k % img.w
          li  == IF x = 0 THEN 0 ELSE l
          l0i == IF x = 0 THEN 0 ELSE l0
          l1i == IF x = 0 THEN 0 ELSE l1
          v   == Clip8(Luma(img.px[k + 1]) + TruncDiv(li + errors[x + 1], 16))
          o   == IF v > 128 THEN 255 ELSE 0
          e   == v - o
          nl0 == 5 * e + l1i
          er1 == [errors EXCEPT ![x] = 3 * e + l0i]
          er2 == IF x = img.w - 1 THEN [er1 EXCEPT ![img.w] = nl0] ELSE er1
      IN DitherFrom(img, k + 1, 7 * e, nl0, e, er2, Append(out, o))

ToBilevel(img) ==
    [w |-> img.w, h |-> img.h,
     px |-> DitherFrom(img, 0, 0, 0, 0, [c \in 0..img.w |-> 0], <<>>)]

\* What a raising call yields.
Raised(e) == [exc |-> e]
IsImage(v) == "px" \in DOMAIN v

\* Image.composite(image1, image2, mask): a copy of image2 with image1
\* pasted at (0, 0) through the mask; paste() raises ValueError unless the
\* mask has image1's size.
Composite(image1, image2, mask) ==
    IF mask.w # image1.w \/ mask.h # image1.h
    THEN Raised("ValueError")
    ELSE [image2 EXCEPT !.px = [k \in 1..Len(image2.px) |->
            LET x == (k - 1) % image2.w
                y == (k - 1) \div image2.w
            IN IF x < image1.w /\ y < image1.h /\ At(mask, x, y) # 0
               THEN At(image1, x, y)
               ELSE image2.px[k]]]

\* The bilevel mask Differ.mask derives from the two images.
MaskBits(image_a, image_b) ==
    ToBilevel(Eval(Subtract(image_a, image_b), NonzeroTable))

\* Differ.mask(image_a, image_b) with no dst/filename: image_a's pixels
\* where the mask is set, black elsewhere, in image_b's size.
Mask(image_a, image_b) ==
    Composite(image_a, Eval(image_b, ZeroTable), MaskBits(image_a, image_b))

\* ------------------------------------------------------------ Differ.color

\* convert('RGBA') of an RGB image: every pixel opaque.
ToRGBA(img) ==
    [img EXCEPT !.px = [k \in 1..Len(img.px) |->
        <<img.px[k][1], img.px[k][2], img.px[k][3], 255>>]]

\* Recolor without the opaque-black exception.
RecolorEveryPixel(p, rgba) ==
    IF p # <<255, 255, 255, 0>> THEN rgba ELSE p

\* The body of the recolouring loop for one pixel of the overlay.
Recolor(p, rgba) ==
    IF p # <<255, 255, 255, 0>>
    THEN IF p = <<0, 0, 0, 255>> THEN <<255, 255, 255, 0>> ELSE rgba
    ELSE p

\* ((a >> 8) + a) >> 8
ShiftForDiv255(a) == ((a \div 256) + a) \div 256

\* One pixel of Image.alpha_composite(dst, src), in Pillow's integer
\* arithmetic with 7 bits of precision.
AlphaPixel(dst, src) ==
    IF src[4] = 0 THEN dst
    ELSE
      LET blend   == dst[4] * (255 - src[4])
          outa255 == src[4] * 255 + blend
          coef1   == (src[4] * 255 * 255 * 128) \div outa255
          coef2   == 255 * 128 - coef1
          ch(c)   == ShiftForDiv255(src[c] * coef1 + dst[c] * coef2 + 128 * 128) \div 128
      IN <<ch(1), ch(2), ch(3), ShiftForDiv255(outa255 + 128)>>

\* Image.alpha_composite(im1, im2): raises ValueError unless the sizes match.
AlphaComposite(im1, im2) ==
    IF im1.w # im2.w \/ im1.h # im2.h
    THEN Raised("ValueError")
    ELSE [im1 EXCEPT !.px = [k \in 1..Len(im1.px) |-> AlphaPixel(im1.px[k], im2.px[k])]]

\* The overlay after the recolouring loop.
Overlay(mask, rgba) ==
    LET o == ToRGBA(mask)
    IN [o EXCEPT !.px = [k \in 1..Len(o.px) |-> Recolor(o.px[k], rgba)]]

\* Differ.color(background, mask, rgba, opacity, ...): the composited image
\* (the opacity argument is read nowhere in the method).
Color(background, mask, rgba, opacity) ==
    AlphaComposite(ToRGBA(background), Overlay(mask, rgba))

\* The highlight colours Differ.diff passes to Differ.color.
AddRGBA == <<0, 255, 0, 255>>
RemoveRGBA == <<255, 0, 0, 255>>


\* ------------------------------------------------------------------- state

\* The concurrent invocations of Differ.diff that are modelled.
Procs == {1, 2}

VARIABLES
    pc,               \* pc[i]: the statement of Differ.diff invocation i is at
    args,             \* args[i]: the arguments and fetched contents of invocation i
    image_a,          \* image_a[i]: the local image_a of Differ.diff
    image_b,          \* image_b[i]: the local image_b of Differ.diff
    diff,             \* diff[i]: the local diff (the score) of Differ.diff
    add_mask_img,     \* add_mask_img[i]
    remove_mask_img,  \* remove_mask_img[i]
    fs,               \* the local disk: path -> content
    uploads,          \* uploads[i]: the objects invocation i sent to S3, in order
    log,              \* log[i]: the steps past the score that invocation i ran
    result,           \* result[i]: what invocation i returned or raised
    fpc,              \* the stage of the component-level run
    fin,              \* its inputs
    fout,             \* its outputs
    apc,              \* app.py: the next module-level statement to execute
    globals,          \* app.py: the module's name bindings
    routes,           \* app.py: the views and handlers registered with the Flask app
    handled,          \* app.py: the requests served, with their responses
    differ_calls      \* app.py: the calls of Differ.diff made, with their arguments

diffVars == <<pc, args, image_a, image_b, diff, add_mask_img, remove_mask_img,
              fs, uploads, log, result>>
fnVars == <<fpc, fin, fout>>
appVars == <<apc, globals, routes, handled, differ_calls>>
vars == <<diffVars, fnVars, appVars>>

None == [none |-> TRUE]

\* What a URL may serve that Image.open cannot identify.
NotAnImage == [bytes |-> "not an image"]

Content == FetchedImages \cup {NotAnImage}

\* The 1x1 black or white images, the inputs of the concurrent runs.
SmallContent == {c \in FetchedImages : c.w * c.h = 1 /\ c.px[1] \in {Black, White}}

\* threshold arguments (diff's default is 0)
Thresholds == {0, 200}

\* opacity arguments, in per cent (diff's default is 0.65)
Opacities == {65, 100}

\* dst arguments: local work directories
Dsts == {"compare", "other"}

\* The files Differ.diff writes in a work directory: the two downloads
\* ('{prefix}_a.{ext}' and '{prefix}_b.{ext}', with the prefix argument at its
\* default 'image', which is all app.py ever passes, and URLs ending in
\* .png) and the two overlays, whose names are fixed.
FileA == "image_a.png"
FileB == "image_b.png"
FileAdd == "add.png"
FileRemove == "remove.png"
Paths == Dsts \X {FileA, FileB, FileAdd, FileRemove}

Init ==
    /\ pc = [i \in Procs |-> "idle"]
    /\ args = [i \in Procs |-> None]
    /\ image_a = [i \in Procs |-> None]
    /\ image_b = [i \in Procs |-> None]
    /\ diff = [i \in Procs |-> None]
    /\ add_mask_img = [i \in Procs |-> None]
    /\ remove_mask_img = [i \in Procs |-> None]
    /\ fs = [p \in Paths |-> None]
    /\ uploads = [i \in Procs |-> <<>>]
    /\ log = [i \in Procs |-> <<>>]
    /\ result = [i \in Procs |-> None]
    /\ fpc = "choose"
    /\ fin = None
    /\ fout = None
    /\ apc = 1
    /\ globals = [n \in {"build_response", "diff", "not_found", "differ"} |-> None]
    /\ routes = [r \in {"/", "/v1/diff", "404"} |-> None]
    /\ handled = <<>>
    /\ differ_calls = <<>>

\* ------------------------------------------------------------- Differ.diff

\* NoDifference with the comparison made strict (diff < threshold).
NoDifferenceStrict(d, threshold) ==
    threshold >= 0 /\ d.num < threshold * threshold * d.den

\* if diff <= threshold, with diff = sqrt(num / den)
NoDifference(d, threshold) ==
    threshold >= 0 /\ d.num <= threshold * threshold * d.den

Raise(i, e) ==
    /\ pc' = [pc EXCEPT ![i] = "raised"]
    /\ result' = [result EXCEPT ![i] = Raised(e)]

Goto(i, label) ==
    /\ pc' = [pc EXCEPT ![i] = label]
    /\ UNCHANGED result

Logged(i, step) == log' = [log EXCEPT ![i] = Append(@, step)]

\* A call of Differ.diff: its arguments, and what the two URLs serve.
Begin(i, contents, thresholds, dsts) ==
    /\ pc[i] = "idle"
    /\ \E before \in contents, after \in contents, t \in thresholds, d \in dsts :
         args' = [args EXCEPT ![i] = [before |-> before, after |-> after, dst |-> d,
                                      opacity |-> 65, threshold |-> t]]
    /\ Goto(i, "download_a")
    /\ UNCHANGED <<image_a, image_b, diff, add_mask_img, remove_mask_img, fs,
                   uploads, log>>
    /\ UNCHANGED <<fnVars, appVars>>

\* Differ.download: the bytes served are written to dst/filename.
Download(i, at, file, content, next) ==
    /\ pc[i] = at
    /\ fs' = [fs EXCEPT ![<<args[i].dst, file>>] = content]
    /\ Goto(i, next)
    /\ UNCHANGED <<args, image_a, image_b, diff, add_mask_img, remove_mask_img,
                   uploads, log>>
    /\ UNCHANGED <<fnVars, appVars>>

DownloadA(i) == Download(i, "download_a", FileA, args[i].before, "download_b")

DownloadB(i) == Download(i, "download_b", FileB, args[i].after, "open_a")

\* requests.get raises (no connection): nothing is written.
DownloadFails(i) ==
    /\ pc[i] \in {"download_a", "download_b"}
    /\ Raise(i, "ConnectionError")
    /\ UNCHANGED <<args, image_a, image_b, diff, add_mask_img, remove_mask_img,
                   fs, uploads, log>>
    /\ UNCHANGED <<fnVars, appVars>>

\* image_a = Image.open(image_a_path): the file is read as it is on disk
\* when the statement runs (the decoding Pillow defers to the first use of
\* the pixels is modelled here); content that is no image raises.
OpenA(i) ==
    /\ pc[i] = "open_a"
    /\ LET c == fs[<<args[i].dst, FileA>>]
       IN IF IsImage(c)
          THEN image_a' = [image_a EXCEPT ![i] = c] /\ Goto(i, "open_b")
          ELSE UNCHANGED image_a /\ Raise(i, "UnidentifiedImageError")
    /\ UNCHANGED <<args, image_b, diff, add_mask_img, remove_mask_img, fs,
                   uploads, log>>
    /\ UNCHANGED <<fnVars, appVars>>

\* image_b = Image.open(image_b_path)
OpenB(i) ==
    /\ pc[i] = "open_b"
    /\ LET c == fs[<<args[i].dst, FileB>>]
       IN IF IsImage(c)
          THEN image_b' = [image_b EXCEPT ![i] = c] /\ Goto(i, "score")
          ELSE UNCHANGED image_b /\ Raise(i, "UnidentifiedImageError")
    /\ UNCHANGED <<args, image_a, diff, add_mask_img, remove_mask_img, fs,
                   uploads, log>>
    /\ UNCHANGED <<fnVars, appVars>>

\* diff = self.rmsdiff_1997(image_a, image_b); if diff <= threshold: return False
Score(i) ==
    /\ pc[i] = "score"
    /\ LET d == rmsdiff_1997(image_a[i], image_b[i])
       IN /\ diff' = [diff EXCEPT ![i] = d]
          /\ IF NoDifference(d, args[i].threshold)
             THEN /\ pc' = [pc EXCEPT ![i] = "returned"]
                  /\ result' = [result EXCEPT ![i] = [value |-> FALSE]]
             ELSE Goto(i, "mask_add")
    /\ UNCHANGED <<args, image_a, image_b, add_mask_img, remove_mask_img, fs,
                   uploads, log>>
    /\ UNCHANGED <<fnVars, appVars>>

\* AddMaskArgs with the two images in the order of the 'removed' call.
AddMaskArgsSwapped(i) == <<image_a[i], image_b[i]>>

\* The arguments of the two self.mask calls and of the two self.color calls.
AddMaskArgs(i) == <<image_b[i], image_a[i]>>
RemoveMaskArgs(i) == <<image_a[i], image_b[i]>>
AddColorArgs(i) == <<image_b[i], add_mask_img[i], AddRGBA, args[i].opacity>>
RemoveColorArgs(i) == <<image_a[i], remove_mask_img[i], RemoveRGBA, args[i].opacity>>

\* add_mask_img = self.mask(image_b, image_a)
MaskAdd(i) ==
    /\ pc[i] = "mask_add"
    /\ Logged(i, "mask_add")
    /\ LET m == Mask(AddMaskArgs(i)[1], AddMaskArgs(i)[2])
       IN IF IsImage(m)
          THEN add_mask_img' = [add_mask_img EXCEPT ![i] = m] /\ Goto(i, "color_add")
          ELSE UNCHANGED add_mask_img /\ Raise(i, m.exc)
    /\ UNCHANGED <<args, image_a, image_b, diff, remove_mask_img, fs, uploads>>
    /\ UNCHANGED <<fnVars, appVars>>

\* add_img_path = self.color(image_b, add_mask_img, (0, 255, 0, 255), opacity,
\*                           dst, 'add.png'): the overlay is saved to dst/add.png
ColorAdd(i) ==
    /\ pc[i] = "color_add"
    /\ Logged(i, "color_add")
    /\ LET a == AddColorArgs(i)
           c == Color(a[1], a[2], a[3], a[4])
       IN IF IsImage(c)
          THEN fs' = [fs EXCEPT ![<<args[i].dst, FileAdd>>] = c] /\ Goto(i, "upload_add")
          ELSE UNCHANGED fs /\ Raise(i, c.exc)
    /\ UNCHANGED <<args, image_a, image_b, diff, add_mask_img, remove_mask_img,
                   uploads>>
    /\ UNCHANGED <<fnVars, appVars>>

\* Differ.upload(file_path, ...): the file's bytes at the time of the call
\* are sent under a fresh key; upload_file returning, upload returns True.
Upload(i, at, file, next) ==
    /\ pc[i] = at
    /\ Logged(i, at)
    /\ uploads' = [uploads EXCEPT ![i] =
                     Append(@, [name |-> file, body |-> fs[<<args[i].dst, file>>]])]
    /\ UNCHANGED <<args, image_a, image_b, diff, add_mask_img, remove_mask_img, fs>>
    /\ UNCHANGED <<fnVars, appVars>>

\* self.upload(add_img_path, bucket, bucket_prefix=bucket_prefix)
UploadAdd(i) == Upload(i, "upload_add", FileAdd, "mask_remove") /\ Goto(i, "mask_remove")

\* upload_file raises (S3UploadFailedError); Differ.upload and Differ.diff
\* catch nothing, so the exception leaves Differ.diff.
UploadFails(i) ==
    /\ pc[i] \in {"upload_add", "upload_remove"}
    /\ Logged(i, pc[i])
    /\ Raise(i, "S3UploadFailedError")
    /\ UNCHANGED <<args, image_a, image_b, diff, add_mask_img, remove_mask_img,
                   fs, uploads>>
    /\ UNCHANGED <<fnVars, appVars>>

\* remove_mask_img = self.mask(image_a, image_b)
MaskRemove(i) ==
    /\ pc[i] = "mask_remove"
    /\ Logged(i, "mask_remove")
    /\ LET m == Mask(RemoveMaskArgs(i)[1], RemoveMaskArgs(i)[2])
       IN IF IsImage(m)
          THEN remove_mask_img' = [remove_mask_img EXCEPT ![i] = m]
               /\ Goto(i, "color_remove")
          ELSE UNCHANGED remove_mask_img /\ Raise(i, m.exc)
    /\ UNCHANGED <<args, image_a, image_b, diff, add_mask_img, fs, uploads>>
    /\ UNCHANGED <<fnVars, appVars>>

\* remove_img_path = self.color(image_a, remove_mask_img, (255, 0, 0, 255),
\*                              opacity, dst, 'remove.png')
ColorRemove(i) ==
    /\ pc[i] = "color_remove"
    /\ Logged(i, "color_remove")
    /\ LET a == RemoveColorArgs(i)
           c == Color(a[1], a[2], a[3], a[4])
       IN IF IsImage(c)
          THEN fs' = [fs EXCEPT ![<<args[i].dst, FileRemove>>] = c]
               /\ Goto(i, "upload_remove")
          ELSE UNCHANGED fs /\ Raise(i, c.exc)
    /\ UNCHANGED <<args, image_a, image_b, diff, add_mask_img, remove_mask_img,
                   uploads>>
    /\ UNCHANGED <<fnVars, appVars>>

\* self.upload(remove_img_path, bucket, bucket_prefix=bucket_prefix); return True
UploadRemove(i) ==
    /\ Upload(i, "upload_remove", FileRemove, "returned")
    /\ pc' = [pc EXCEPT ![i] = "returned"]
    /\ result' = [result EXCEPT ![i] = [value |-> TRUE]]

\* One step of invocation i after its call.
Step(i) ==
    \/ DownloadA(i)
    \/ DownloadB(i)
    \/ DownloadFails(i)
    \/ OpenA(i)
    \/ OpenB(i)
    \/ Score(i)
    \/ MaskAdd(i)
    \/ ColorAdd(i)
    \/ UploadAdd(i)
    \/ UploadFails(i)
    \/ MaskRemove(i)
    \/ ColorRemove(i)
    \/ UploadRemove(i)

\* A call of Differ.diff on any contents, into the work directory 'compare'.
BeginAny == Begin(1, Content, Thresholds, {"compare"})

\* One invocation of Differ.diff.
Next ==
    \/ BeginAny
    \/ Step(1)

Spec == Init /\ [][Next]_vars

\* A call of Differ.diff with the default threshold, into a work directory
\* of the caller's choice.
BeginSmall(i) == Begin(i, SmallContent, {0}, Dsts)

\* Two invocations of Differ.diff running concurrently (the Flask server
\* serves requests in threads).
NextConc ==
    \E i \in Procs :
        \/ BeginSmall(i)
        \/ Step(i)

SpecConc == Init /\ [][NextConc]_vars

\* ------------------------------------------- the components, one at a time

\* Two images are chosen; the scorer, the mask builder and the compositor
\* are then applied to them as Differ.diff applies them: mask(a, b), then
\* color(a, mask, rgba, opacity).
FnChoose ==
    /\ fpc = "choose"
    /\ \E a \in Images, b \in Images : fin' = [a |-> a, b |-> b]
    /\ fout' = [score |-> None, mask |-> None, rgba |-> None, opacity |-> None,
                overlay |-> None]
    /\ fpc' = "score"
    /\ UNCHANGED <<diffVars, appVars>>

\* Differ.rmsdiff_1997(a, b)
FnScore ==
    /\ fpc = "score"
    /\ fout' = [fout EXCEPT !.score = rmsdiff_1997(fin.a, fin.b)]
    /\ fpc' = "mask"
    /\ UNCHANGED <<fin, diffVars, appVars>>

\* Differ.mask(a, b)
FnMask ==
    /\ fpc = "mask"
    /\ LET m == Mask(fin.a, fin.b)
       IN /\ fout' = [fout EXCEPT !.mask = m]
          /\ fpc' = IF IsImage(m) THEN "color" ELSE "done"
    /\ UNCHANGED <<fin, diffVars, appVars>>

\* Differ.color(a, mask, rgba, opacity)
FnColor ==
    /\ fpc = "color"
    /\ \E rgba \in {AddRGBA, RemoveRGBA}, opacity \in Opacities :
         fout' = [fout EXCEPT !.rgba = rgba, !.opacity = opacity,
                              !.overlay = Color(fin.a, fout.mask, rgba, opacity)]
    /\ fpc' = "done"
    /\ UNCHANGED <<fin, diffVars, appVars>>

NextFn ==
    \/ FnChoose
    \/ FnScore
    \/ FnMask
    \/ FnColor

SpecFn == Init /\ [][NextFn]_vars

\* ------------------------------------------------------------------ app.py

\* The function objects the module's def statements create.
BuildResponseFn == [def |-> "build_response", line |-> 17, arity |-> 2]
DiffHelperFn == [def |-> "diff", line |-> 22, arity |-> 1]
NotFoundFn == [def |-> "not_found", line |-> 34, arity |-> 1]
DifferViewFn == [def |-> "differ", line |-> 39, arity |-> 0]
DiffViewFn == [def |-> "diff", line |-> 44, arity |-> 0]

\* The module-level statements in file order: each def binds its name in
\* the module's globals, a decorator registers the function object.
AppLoad ==
    /\ apc \in 1..6
    /\ globals' =
         CASE apc = 1 -> [globals EXCEPT !["build_response"] = BuildResponseFn]
           [] apc = 2 -> [globals EXCEPT !["diff"] = DiffHelperFn]
           [] apc = 3 -> [globals EXCEPT !["not_found"] = NotFoundFn]
           [] apc = 4 -> [globals EXCEPT !["differ"] = DifferViewFn]
           [] apc = 5 -> [globals EXCEPT !["diff"] = DiffViewFn]
           [] OTHER -> globals
    /\ routes' =
         CASE apc = 3 -> [routes EXCEPT !["404"] = NotFoundFn]
           [] apc = 4 -> [routes EXCEPT !["/"] = DifferViewFn]
           [] apc = 5 -> [routes EXCEPT !["/v1/diff"] = DiffViewFn]
           [] OTHER -> routes
    /\ apc' = apc + 1
    /\ UNCHANGED <<handled, differ_calls, diffVars, fnVars>>

\* request.json of a request: no JSON body, the empty object, or an object
\* with the five fields the helper reads.
NoJson == None
EmptyJson == [json |-> "{}"]
Urls == {"pica.png", "picb.png"}
Payloads ==
    [before_image_url : Urls, after_image_url : Urls, dst : {"compare"},
     bucket : {"img-diff"}, bucket_prefix : {"compare"}]
Bodies == {NoJson, EmptyJson} \cup Payloads
Truthy(body) == body \in Payloads

RequestPaths == {"/", "/v1/diff", "/missing"}

\* The helper diff(payload) of line 22: Differ().diff(...) with the payload's
\* fields.
DifferCall(payload) ==
    <<payload.before_image_url, payload.after_image_url, payload.dst,
      payload.bucket, payload.bucket_prefix>>

\* What the statement diff(request.json) of the route calls: the object the
\* name diff is bound to in the module's globals when the call is made.
RouteCallee == globals["diff"]

\* The view of /v1/diff on a request with the given request.json: the
\* response, and the Differ.diff calls made on the way.
DiffView(body) ==
    IF ~Truthy(body)
    THEN [response |-> [status |-> 400, body |-> "Bad Request"], calls |-> <<>>]
    ELSE IF RouteCallee.arity # 1
    THEN \* TypeError: diff() takes 0 positional arguments but 1 was given
         [response |-> [status |-> 500, body |-> "Internal Server Error"],
          calls |-> <<>>]
    ELSE [response |-> [status |-> 200, body |-> "{\"status\": \"success\"}"],
          calls |-> <<DifferCall(body)>>]

\* The application serves one request.
Request ==
    /\ apc = 7
    /\ Len(handled) < MaxRequests
    /\ \E path \in RequestPaths, body \in Bodies :
         LET out ==
               IF path = "/v1/diff" THEN DiffView(body)
               ELSE IF path = "/"
               THEN [response |-> [status |-> 200, body |-> "Image Differ!"],
                     calls |-> <<>>]
               ELSE [response |-> [status |-> 404, body |-> "{\"error\": \"Not found\"}"],
                     calls |-> <<>>]
         IN /\ handled' = Append(handled, [path |-> path, json |-> body,
                                           response |-> out.response])
            /\ differ_calls' = differ_calls \o out.calls
    /\ UNCHANGED <<apc, globals, routes, diffVars, fnVars>>

NextApp ==
    \/ AppLoad
    \/ Request

SpecApp == Init /\ [][NextApp]_vars

\* ------------------------------------------------------------------ claims

SameSize(a, b) == a.w = b.w /\ a.h = b.h

Terminated(i) == pc[i] \in {"returned", "raised"}

IsPrefix(s, t) == Len(s) <= Len(t) /\ \A k \in 1..Len(s) : s[k] = t[k]

Has(s, x) == \E k \in 1..Len(s) : s[k] = x

\* Invocation i ended with "no difference" and did nothing past the score.
EndedNoDifference(i) ==
    /\ pc[i] = "returned"
    /\ result[i] = [value |-> FALSE]
    /\ log[i] = <<>>
    /\ uploads[i] = <<>>
    /\ add_mask_img[i] = None
    /\ remove_mask_img[i] = None
    /\ fs[<<args[i].dst, FileAdd>>] = None
    /\ fs[<<args[i].dst, FileRemove>>] = None

\* C1: once Differ.diff has computed the score, a score at most the threshold
\* means the invocation has returned "no difference" with no mask, no overlay
\* and no upload; identical before and after images at threshold 0 end so.
C1_NoDifferenceEndsQuietly ==
    \A i \in Procs :
        diff[i] # None =>
          /\ (args[i].threshold >= 0
              /\ diff[i].num <= args[i].threshold * args[i].threshold * diff[i].den)
                => EndedNoDifference(i)
          /\ (args[i].before = args[i].after /\ args[i].threshold = 0)
                => EndedNoDifference(i)

\* An invocation on identical images at threshold 0 has returned.
C1_Witness ==
    \E i \in Procs :
        /\ pc[i] = "returned"
        /\ diff[i] # None
        /\ args[i].before = args[i].after
        /\ args[i].threshold = 0

\* The overlays an invocation's own inputs call for.
OwnAddOverlay(i) ==
    Color(args[i].after, Mask(args[i].after, args[i].before),
          <<0, 255, 0, 255>>, args[i].opacity)
OwnRemoveOverlay(i) ==
    Color(args[i].before, Mask(args[i].before, args[i].after),
          <<255, 0, 0, 255>>, args[i].opacity)

\* C2: whatever the interleaving of two invocations, the images an
\* invocation scores are what its own two URLs served and every overlay it
\* uploads is the one its own inputs call for.
C2_InvocationsShareNothing ==
    \A i \in Procs :
        /\ image_a[i] # None => image_a[i] = args[i].before
        /\ image_b[i] # None => image_b[i] = args[i].after
        /\ \A k \in 1..Len(uploads[i]) :
             uploads[i][k].body =
               IF uploads[i][k].name = FileAdd THEN OwnAddOverlay(i)
               ELSE OwnRemoveOverlay(i)

\* The upload of the 'added' overlay was attempted and failed.
AddUploadFailed(i) ==
    /\ Has(log[i], "upload_add")
    /\ \A k \in 1..Len(uploads[i]) : uploads[i][k].name # FileAdd

\* C3: an invocation that ended after the upload of the 'added' overlay
\* failed has still built the 'removed' overlay and attempted its upload.
C3_RemovedAttemptedAfterAddFails ==
    \A i \in Procs :
        (Terminated(i) /\ AddUploadFailed(i)) =>
            /\ Has(log[i], "color_remove")
            /\ Has(log[i], "upload_remove")

\* C4: with before and after images of different width or height, the
\* invocation is, right after the scoring step, in a failure raised before
\* any mask or overlay step and before any upload.
C4_DimensionMismatchRejected ==
    \A i \in Procs :
        (/\ image_a[i] # None
         /\ image_b[i] # None
         /\ ~SameSize(image_a[i], image_b[i])
         /\ pc[i] # "score") =>
            /\ pc[i] = "raised"
            /\ log[i] = <<>>
            /\ uploads[i] = <<>>

\* The steps of Differ.diff past the score, in order.
StepOrder ==
    <<"mask_add", "color_add", "upload_add",
      "mask_remove", "color_remove", "upload_remove">>

\* C5: past the score the steps run in the one order mask(after, before),
\* green composite onto after, publish, mask(before, after), red composite
\* onto before, publish; what is published is the finished composite, and
\* there are at most two publish calls.
C5_FixedStepOrder ==
    \A i \in Procs :
        /\ IsPrefix(log[i], StepOrder)
        /\ Len(uploads[i]) <= 2
        /\ add_mask_img[i] # None =>
             add_mask_img[i] = Mask(args[i].after, args[i].before)
        /\ remove_mask_img[i] # None =>
             remove_mask_img[i] = Mask(args[i].before, args[i].after)
        /\ Has(log[i], "upload_add") =>
             fs[<<args[i].dst, FileAdd>>] = OwnAddOverlay(i)
        /\ Has(log[i], "upload_remove") =>
             fs[<<args[i].dst, FileRemove>>] = OwnRemoveOverlay(i)
        /\ Len(uploads[i]) >= 1 =>
             uploads[i][1] = [name |-> FileAdd, body |-> OwnAddOverlay(i)]
        /\ Len(uploads[i]) >= 2 =>
             uploads[i][2] = [name |-> FileRemove, body |-> OwnRemoveOverlay(i)]

\* An invocation has run all six steps, with masks that differ by direction.
C5_Witness ==
    \E i \in Procs :
        /\ pc[i] = "returned"
        /\ log[i] = StepOrder
        /\ Len(uploads[i]) = 2
        /\ add_mask_img[i] # remove_mask_img[i]

\* The sum over all pixels and all three channels of the squared difference.
SquaredDifferenceSum(a, b) ==
    LET pix == [k \in 1..Len(a.px) |->
                  (a.px[k][1] - b.px[k][1]) * (a.px[k][1] - b.px[k][1])
                  + (a.px[k][2] - b.px[k][2]) * (a.px[k][2] - b.px[k][2])
                  + (a.px[k][3] - b.px[k][3]) * (a.px[k][3] - b.px[k][3])]
    IN SumTo(pix, 1, Len(a.px))

\* C6: for same-size images, score^2 * pixel count is the sum over all
\* pixels and channels of the squared channel difference, and the score is 0
\* exactly when the images are identical.
C6_ScoreCountsEveryChannel ==
    (fpc \in {"mask", "color", "done"} /\ SameSize(fin.a, fin.b)) =>
        /\ fout.score.num = SquaredDifferenceSum(fin.a, fin.b)
        /\ fout.score.num = 0 <=> fin.a = fin.b

\* C7: for same-size images, mask(A, B) marks a pixel exactly when some RGB
\* channel of the zero-clamped A - B is at least 10.
C7_MaskMarksAnyChannel ==
    (fpc \in {"color", "done"} /\ SameSize(fin.a, fin.b) /\ IsImage(fout.mask)) =>
        \A k \in 1..Len(fin.a.px) :
            fout.mask.px[k] # Black
              <=> \E c \in 1..3 : Clip8(fin.a.px[k][c] - fin.b.px[k][c]) >= 10

\* C8: at every pixel the mask marks, the composited image is the highlight
\* colour blended over the background pixel at the opacity passed (each
\* channel within one unit of opacity * highlight + (1 - opacity) * background).
C8_HighlightBlendedAtOpacity ==
    (fpc = "done" /\ IsImage(fout.mask) /\ IsImage(fout.overlay)) =>
        \A k \in 1..Len(fout.mask.px) :
            fout.mask.px[k] # Black =>
                \A c \in 1..3 :
                    Abs(100 * fout.overlay.px[k][c]
                        - (fout.opacity * fout.rgba[c]
                           + (100 - fout.opacity) * fin.a.px[k][c])) <= 100

DiffRequests ==
    {k \in 1..Len(handled) :
        handled[k].path = "/v1/diff" /\ handled[k].json \in Payloads}

\* C10: every /v1/diff request with a JSON object was answered 200
\* {"status": "success"} after one call of Differ.diff, and every /v1/diff
\* request without JSON was answered 400 with no call.
C10_RouteCallsDifferOnce ==
    /\ \A k \in DiffRequests :
         handled[k].response = [status |-> 200, body |-> "{\"status\": \"success\"}"]
    /\ Len(differ_calls) = Cardinality(DiffRequests)
    /\ \A k \in 1..Len(handled) :
         (handled[k].path = "/v1/diff" /\ handled[k].json = NoJson)
            => handled[k].response.status = 400

=============================================================================
